---------------------------- MODULE Spec2Model ----------------------------
(***************************************************************************)
(* The chunked parallel batch processor of ban/commands/helpers.py:        *)
(* collect_report (the worker-side wrapper), ChunkedPool (chunking and     *)
(* submission of chunks to a multiprocessing pool) and batch (the          *)
(* orchestrating generator).                                               *)
(*                                                                         *)
(* Processes of the model: the orchestrator (the generator batch, driven   *)
(* by its consumer), the pool's task handler thread (which iterates the    *)
(* lazy task generator), the worker processes, and, for a paginated        *)
(* source, the data store, whose rows may change while the batch runs.     *)
(* The pool's result queue and the iterator's item deque are one FIFO,     *)
(* outqueue: the result handler thread only moves items in order.          *)
(***************************************************************************)
EXTENDS Integers, Sequences, FiniteSets, TLC

\* ------------------------------------------------------------------ bounds
MaxN == 3
MaxChunk == 2
MaxWorkers == 2

\* The user functions considered: func returns no result, one result or two
\* results per item of its chunk.
FanOuts == {0, 1, 2}

VARIABLES
    kind,        \* "plain" | "query": isinstance(iterable, SelectQuery)
    chunksize,   \* batch's chunksize argument (any integer the caller passes)
    workers,     \* config WORKERS
    fan,         \* number of results func returns per item it is given
    failItem,    \* the item on which func raises; 0: func never raises
    excArg,      \* "str" | "other": whether e.args[0] of func's error is a str
    source,      \* the rows of the source, in its order
    srcChanged,  \* the paginated source changed after count() was taken
    pc,          \* position of the generator batch
    signal,      \* how the generator ended, as its caller sees it
    poolState,   \* "none" | "RUN" | "TERMINATE"
    gen,         \* the lazy task generator: "new" | "iter" | "done" | "crashed"
    qcount,      \* query.count() as evaluated by range(); -1 before
    pos,         \* next offset of the range / position of the plain iterator
    chunks,      \* the chunks generated so far, in submission order
    fetches,     \* per chunk of a query: the << offset, limit >> it was read at
    inqueue,     \* the pool's task queue: indices into chunks
    length,      \* IMapUnorderedIterator._length; -1 while unset
    wstate,      \* per worker: 0 idle, i > 0 executing chunk i, -1 terminated
    wrep,        \* per worker: reporter._reports of the process reporter
    started,     \* indices of the chunks whose func call began, in order
    outqueue,    \* completed (success, value) items not yet taken by next()
    arrival,     \* indices of the chunks whose item reached outqueue, in order
    cur,         \* the ResultBatch the for loop body is working on
    rest,        \* results of cur that yield from has not yielded yet
    mainReports, \* reporter._reports of the main reporter
    progress,    \* sum of the steps given to bar()
    finishCalls, \* number of calls of bar.finish()
    yielded,     \* the results the caller received, in order
    errorSeen,   \* the for loop's next() raised a worker's error
    raised       \* func raised in some worker

vars == << kind, chunksize, workers, fan, failItem, excArg, source, srcChanged,
           pc, signal, poolState, gen, qcount, pos, chunks, fetches, inqueue,
           length,
           wstate, wrep, started, outqueue, arrival, cur, rest, mainReports,
           progress, finishCalls, yielded, errorSeen, raised >>

inputs == << kind, chunksize, workers, fan, failItem, excArg >>
taskVars == << gen, qcount, pos, chunks, fetches, inqueue, length >>
workerVars == << wstate, wrep, started, outqueue, arrival, raised >>
mainVars == << pc, signal, cur, rest, mainReports, progress, finishCalls,
               yielded, errorSeen >>

\* ----------------------------------------------------------------- helpers
Min(a, b) == IF a <= b THEN a ELSE b

Range(s) == { s[i] : i \in 1..Len(s) }

Iota(n) == [i \in 1..n |-> i]

RECURSIVE Flatten(_)
Flatten(ss) ==
    IF ss = << >> THEN << >> ELSE Head(ss) \o Flatten(Tail(ss))

RECURSIVE SumLen(_)
SumLen(ss) ==
    IF ss = << >> THEN 0 ELSE Len(Head(ss)) + SumLen(Tail(ss))

NoBatch == [idx |-> 0, ok |-> TRUE, results |-> << >>, reports |-> << >>]

\* ------------------------------------------------------- the user function
\* func(*chunk) returns, in the order of its items, fan results per item.
RECURSIVE Results(_, _)
Results(chunk, f) ==
    IF chunk = << >> THEN << >>
    ELSE [k \in 1..f |-> << Head(chunk), k >>] \o Results(Tail(chunk), f)

\* func records one report entry per item it processes, in order.
Entries(chunk) == chunk

\* The items func processed before it raised on item bad.
RECURSIVE Before(_, _)
Before(chunk, bad) ==
    IF chunk = << >> \/ Head(chunk) = bad THEN << >>
    ELSE << Head(chunk) >> \o Before(Tail(chunk), bad)

\* ------------------------------------------------------------ Reporter
ReporterMerge(reports, more) == reports \o more

ReporterClear(reports) == << >>

\* ------------------------------------------------------ collect_report
\* One call of collect_report(func, chunk) in a worker whose process
\* reporter holds buf. A raising func leaves the function at line 69:
\* lines 70-71 (copy, clear) do not run.
CollectReportMutant(buf, chunk, bad, f) ==
    IF bad \in Range(chunk)
    THEN [ok |-> FALSE, results |-> << >>, reports |-> << >>,
          buf |-> buf \o Entries(Before(chunk, bad))]
    ELSE LET filled == buf \o Entries(chunk)
         IN  [ok |-> TRUE, results |-> Results(chunk, f), reports |-> filled,
              buf |-> filled]

CollectReport(buf, chunk, bad, f) ==
    IF bad \in Range(chunk)
    THEN [ok |-> FALSE, results |-> << >>, reports |-> << >>,
          buf |-> buf \o Entries(Before(chunk, bad))]
    ELSE LET filled == buf \o Entries(chunk)
         IN  [ok |-> TRUE, results |-> Results(chunk, f), reports |-> filled,
              buf |-> ReporterClear(filled)]

\* ------------------------------------------------------------ chunk source
\* list(query.limit(limit).offset(offset)) over the rows src.
Window(src, limit, offset) ==
    SubSeq(src, offset + 1, Min(offset + limit, Len(src)))

\* tuple(itertools.islice(it, size)) with it at position p of src.
Islice(src, p, size) ==
    SubSeq(src, p + 1, Min(p + size, Len(src)))

\* ------------------------------------------------------------------- Init
Init ==
    /\ kind \in {"plain", "query"}
    /\ chunksize \in -1..MaxChunk
    /\ workers \in 1..MaxWorkers
    /\ fan \in FanOuts
    /\ \E n \in 0..MaxN :
          /\ source = Iota(n)
          /\ failItem \in 0..n
    /\ excArg \in (IF failItem = 0 THEN {"str"} ELSE {"str", "other"})
    /\ srcChanged = FALSE
    /\ pc = "idle"
    /\ signal = "none"
    /\ poolState = "none"
    /\ gen = "new"
    /\ qcount = -1
    /\ pos = 0
    /\ chunks = << >>
    /\ fetches = << >>
    /\ inqueue = << >>
    /\ length = -1
    /\ wstate = << >>
    /\ wrep = << >>
    /\ started = << >>
    /\ outqueue = << >>
    /\ arrival = << >>
    /\ cur = NoBatch
    /\ rest = << >>
    /\ mainReports = << >>
    /\ progress = 0
    /\ finishCalls = 0
    /\ yielded = << >>
    /\ errorSeen = FALSE
    /\ raised = FALSE

\* ------------------------------------------------------------ orchestrator
\* The consumer's first next(): lines 108-114 up to the for loop's first
\* next(). The pool and its worker processes are created (line 112) before
\* imap_unordered is called (line 114), which queues the lazy task
\* generator without looking at chunksize.
Start ==
    /\ pc = "idle"
    /\ pc' = "wait"
    /\ poolState' = "RUN"
    /\ wstate' = [w \in 1..workers |-> 0]
    /\ wrep' = [w \in 1..workers |-> << >>]
    /\ UNCHANGED << inputs, source, srcChanged, signal, taskVars, started,
                    outqueue, arrival, raised, cur, rest, mainReports,
                    progress, finishCalls, yielded, errorSeen >>

\* pool.terminate(), also run by the with block's exit: the task handler
\* stops, every worker process is killed, queued and running tasks are lost.
TerminatedMutant == wstate

Terminated == [w \in 1..workers |-> -1]

\* IMapUnorderedIterator.next() returns the oldest completed item: the
\* for loop binds (results, reports) (line 114).
NextItem ==
    /\ pc = "wait"
    /\ outqueue # << >>
    /\ Head(outqueue).ok
    /\ cur' = Head(outqueue)
    /\ outqueue' = Tail(outqueue)
    /\ pc' = "merge"
    /\ UNCHANGED << inputs, source, srcChanged, signal, poolState, taskVars,
                    wstate, wrep, started, arrival, raised, rest, mainReports,
                    progress, finishCalls, yielded, errorSeen >>

\* next() re-raises the error of a chunk whose func raised: control goes to
\* the except clause (line 119).
NextRaise ==
    /\ pc = "wait"
    /\ outqueue # << >>
    /\ ~Head(outqueue).ok
    /\ outqueue' = Tail(outqueue)
    /\ errorSeen' = TRUE
    /\ pc' = "except"
    /\ UNCHANGED << inputs, source, srcChanged, signal, poolState, taskVars,
                    wstate, wrep, started, arrival, raised, cur, rest,
                    mainReports, progress, finishCalls, yielded >>

\* next() raises StopIteration once every one of the length items was
\* taken: the for loop ends (line 118 follows).
NextStop ==
    /\ pc = "wait"
    /\ outqueue = << >>
    /\ length >= 0
    /\ Len(arrival) = length
    /\ pc' = "finish"
    /\ UNCHANGED << inputs, source, srcChanged, signal, poolState, taskVars,
                    workerVars, cur, rest, mainReports, progress, finishCalls,
                    yielded, errorSeen >>

\* line 115: reporter.merge(reports)
MergeMutant ==
    /\ pc = "merge"
    /\ pc' = "bar"
    /\ UNCHANGED << inputs, source, srcChanged, signal, poolState, taskVars,
                    workerVars, cur, rest, mainReports, progress, finishCalls,
                    yielded, errorSeen >>

Merge ==
    /\ pc = "merge"
    /\ mainReports' = ReporterMerge(mainReports, cur.reports)
    /\ pc' = "bar"
    /\ UNCHANGED << inputs, source, srcChanged, signal, poolState, taskVars,
                    workerVars, cur, rest, progress, finishCalls, yielded,
                    errorSeen >>

\* line 116: bar(step=len(results)); yield from then starts on results.
BarStepMutant(results) == 1

BarStep(results) == Len(results)

Bar ==
    /\ pc = "bar"
    /\ progress' = progress + BarStep(cur.results)
    /\ rest' = cur.results
    /\ pc' = IF cur.results = << >> THEN "wait" ELSE "yield"
    /\ UNCHANGED << inputs, source, srcChanged, signal, poolState, taskVars,
                    workerVars, cur, mainReports, finishCalls, yielded,
                    errorSeen >>

\* line 117: yield from hands the next result to the caller and suspends.
YieldMutant ==
    /\ pc = "yield"
    /\ yielded' = Append(yielded, rest[Len(rest)])
    /\ rest' = SubSeq(rest, 1, Len(rest) - 1)
    /\ pc' = "suspended"
    /\ UNCHANGED << inputs, source, srcChanged, signal, poolState, taskVars,
                    workerVars, cur, mainReports, progress, finishCalls,
                    errorSeen >>

Yield ==
    /\ pc = "yield"
    /\ yielded' = Append(yielded, Head(rest))
    /\ rest' = Tail(rest)
    /\ pc' = "suspended"
    /\ UNCHANGED << inputs, source, srcChanged, signal, poolState, taskVars,
                    workerVars, cur, mainReports, progress, finishCalls,
                    errorSeen >>

\* The caller asks for the next result: the generator resumes at line 117.
Resume ==
    /\ pc = "suspended"
    /\ pc' = IF rest = << >> THEN "wait" ELSE "yield"
    /\ UNCHANGED << inputs, source, srcChanged, signal, poolState, taskVars,
                    workerVars, cur, rest, mainReports, progress, finishCalls,
                    yielded, errorSeen >>

\* The caller closes the suspended generator: GeneratorExit is raised at
\* line 117; except Exception (line 119) does not catch it.
Close ==
    /\ pc = "suspended"
    /\ pc' = "exit_close"
    /\ UNCHANGED << inputs, source, srcChanged, signal, poolState, taskVars,
                    workerVars, cur, rest, mainReports, progress, finishCalls,
                    yielded, errorSeen >>

\* line 118: bar.finish()
Finish ==
    /\ pc = "finish"
    /\ finishCalls' = finishCalls + 1
    /\ pc' = "exit"
    /\ UNCHANGED << inputs, source, srcChanged, signal, poolState, taskVars,
                    workerVars, cur, rest, mainReports, progress, yielded,
                    errorSeen >>

\* lines 119-121: the except clause. "\n" + e.args[0] raises TypeError when
\* e.args[0] is not a str, and pool.terminate() (line 121) is then skipped;
\* otherwise the message is printed, the pool is terminated and the
\* exception is dropped.
ExceptOutcome(arg) == IF arg = "str" THEN "exit" ELSE "exit_raise"

ExceptMutant ==
    /\ pc = "except"
    /\ pc' = ExceptOutcome(excArg)
    /\ finishCalls' = finishCalls + 1
    /\ IF excArg = "str"
       THEN /\ poolState' = "TERMINATE"
            /\ wstate' = Terminated
       ELSE UNCHANGED << poolState, wstate >>
    /\ UNCHANGED << inputs, source, srcChanged, signal, taskVars, wrep,
                    started, outqueue, arrival, raised, cur, rest,
                    mainReports, progress, yielded, errorSeen >>

Except ==
    /\ pc = "except"
    /\ pc' = ExceptOutcome(excArg)
    /\ IF excArg = "str"
       THEN /\ poolState' = "TERMINATE"
            /\ wstate' = Terminated
       ELSE UNCHANGED << poolState, wstate >>
    /\ UNCHANGED << inputs, source, srcChanged, signal, taskVars, wrep,
                    started, outqueue, arrival, raised, cur, rest,
                    mainReports, progress, finishCalls, yielded, errorSeen >>

\* What the caller of next() gets when the generator leaves its body.
ExitSignal(p) ==
    CASE p = "exit" -> "StopIteration"
      [] p = "exit_raise" -> "exception"
      [] OTHER -> "closed"

\* line 112: leaving the with block runs Pool.__exit__, that is terminate();
\* then the generator ends.
ExitMutant ==
    /\ pc \in {"exit", "exit_raise", "exit_close"}
    /\ signal' = ExitSignal(pc)
    /\ pc' = "done"
    /\ UNCHANGED << inputs, source, srcChanged, poolState, taskVars,
                    workerVars, cur, rest, mainReports, progress,
                    finishCalls, yielded, errorSeen >>

Exit ==
    /\ pc \in {"exit", "exit_raise", "exit_close"}
    /\ poolState' = "TERMINATE"
    /\ wstate' = Terminated
    /\ signal' = ExitSignal(pc)
    /\ pc' = "done"
    /\ UNCHANGED << inputs, source, srcChanged, taskVars, wrep, started,
                    outqueue, arrival, raised, cur, rest, mainReports,
                    progress, finishCalls, yielded, errorSeen >>

\* ------------------------------------------------------------ task handler
\* The task handler thread starts iterating the generator of line 100-101.
\* For a query, range(0, query.count(), chunksize) is evaluated now (line
\* 79): it raises ValueError for a step of 0, inside the thread, which dies;
\* nothing is ever reported to the iterator.
TaskStart ==
    /\ poolState = "RUN"
    /\ gen = "new"
    /\ IF kind = "query"
       THEN /\ qcount' = Len(source)
            /\ gen' = IF chunksize = 0 THEN "crashed" ELSE "iter"
       ELSE /\ qcount' = qcount
            /\ gen' = "iter"
    /\ UNCHANGED << inputs, source, srcChanged, poolState, pos, chunks,
                    fetches, inqueue, length, workerVars, mainVars >>

\* for idx in range(0, count, step): whether idx = p is in the range.
InRangeMutant(p, count, step) == step > 0 /\ p <= count

InRange(p, count, step) == step > 0 /\ p < count

\* The chunk the generator yields next, << >> when it is exhausted.
\* query (lines 79-80):  list(query.limit(chunksize).offset(idx))
\* plain (line 98, Pool._get_tasks):  tuple(islice(it, chunksize))
NextChunkMutant ==
    IF kind = "query"
    THEN IF InRange(pos, qcount, chunksize)
         THEN << Window(source, chunksize, pos) >>
         ELSE << >>
    ELSE IF Islice(source, pos, chunksize + 1) # << >>
         THEN << Islice(source, pos, chunksize + 1) >>
         ELSE << >>

NextChunk ==
    IF kind = "query"
    THEN IF InRange(pos, qcount, chunksize)
         THEN << Window(source, chunksize, pos) >>
         ELSE << >>
    ELSE IF Islice(source, pos, chunksize) # << >>
         THEN << Islice(source, pos, chunksize) >>
         ELSE << >>

\* The position of the generator after it yielded a chunk.
NextPos(chunk) ==
    IF kind = "query" THEN pos + chunksize ELSE pos + Len(chunk)

\* islice(it, size) raises ValueError for a negative size (plain input).
GenRaises == kind = "plain" /\ chunksize < 0

\* The generator yields its next task, numbered by enumerate (line 101), and
\* the thread puts it on the pool's task queue.
TaskPut ==
    /\ poolState = "RUN"
    /\ gen = "iter"
    /\ ~GenRaises
    /\ NextChunk # << >>
    /\ chunks' = Append(chunks, NextChunk[1])
    /\ fetches' = IF kind = "query"
                  THEN Append(fetches, << pos, chunksize >>)
                  ELSE fetches
    /\ inqueue' = Append(inqueue, Len(chunks) + 1)
    /\ pos' = NextPos(NextChunk[1])
    /\ UNCHANGED << inputs, source, srcChanged, poolState, gen, qcount,
                    length, workerVars, mainVars >>

\* The generator is exhausted: the thread calls result._set_length (line
\* 102) with the number of tasks it has put.
TaskEndMutant ==
    /\ poolState = "RUN"
    /\ gen = "iter"
    /\ ~GenRaises
    /\ NextChunk = << >>
    /\ gen' = "done"
    /\ UNCHANGED << inputs, source, srcChanged, poolState, qcount, pos,
                    chunks, fetches, inqueue, length, workerVars, mainVars >>

TaskEnd ==
    /\ poolState = "RUN"
    /\ gen = "iter"
    /\ ~GenRaises
    /\ NextChunk = << >>
    /\ gen' = "done"
    /\ length' = Len(chunks)
    /\ UNCHANGED << inputs, source, srcChanged, poolState, qcount, pos,
                    chunks, fetches, inqueue, workerVars, mainVars >>

\* The generator raises inside the task handler thread, which dies.
TaskCrash ==
    /\ poolState = "RUN"
    /\ gen = "iter"
    /\ GenRaises
    /\ gen' = "crashed"
    /\ UNCHANGED << inputs, source, srcChanged, poolState, qcount, pos,
                    chunks, fetches, inqueue, length, workerVars, mainVars >>

\* ---------------------------------------------------------------- workers
\* An idle worker takes the oldest task and calls collect_report(func, chunk).
WorkerTake(w) ==
    /\ w \in DOMAIN wstate
    /\ wstate[w] = 0
    /\ inqueue # << >>
    /\ wstate' = [wstate EXCEPT ![w] = Head(inqueue)]
    /\ inqueue' = Tail(inqueue)
    /\ started' = Append(started, Head(inqueue))
    /\ UNCHANGED << inputs, source, srcChanged, poolState, gen, qcount, pos,
                    chunks, fetches, length, wrep, outqueue, arrival, raised,
                    mainVars >>

\* collect_report returns or raises; the worker sends (True, value) or
\* (False, error) for its task and is idle again.
WorkerFinish(w) ==
    /\ w \in DOMAIN wstate
    /\ wstate[w] > 0
    /\ LET r == CollectReport(wrep[w], chunks[wstate[w]], failItem, fan)
       IN  /\ wrep' = [wrep EXCEPT ![w] = r.buf]
           /\ outqueue' = Append(outqueue,
                  [idx |-> wstate[w], ok |-> r.ok, results |-> r.results,
                   reports |-> r.reports])
           /\ raised' = (raised \/ ~r.ok)
    /\ arrival' = Append(arrival, wstate[w])
    /\ wstate' = [wstate EXCEPT ![w] = 0]
    /\ UNCHANGED << inputs, source, srcChanged, poolState, taskVars, started,
                    mainVars >>

\* ------------------------------------------------------------- data store
\* A row is deleted from, or appended to, the paginated source between
\* count() and a later window fetch.
SourceShrink ==
    /\ kind = "query"
    /\ gen = "iter"
    /\ poolState = "RUN"
    /\ ~srcChanged
    /\ source # << >>
    /\ source' = Tail(source)
    /\ srcChanged' = TRUE
    /\ UNCHANGED << inputs, poolState, taskVars, workerVars, mainVars >>

SourceGrow ==
    /\ kind = "query"
    /\ gen = "iter"
    /\ poolState = "RUN"
    /\ ~srcChanged
    /\ source' = Append(source, Len(source) + 1)
    /\ srcChanged' = TRUE
    /\ UNCHANGED << inputs, poolState, taskVars, workerVars, mainVars >>

\* ------------------------------------------------------------------- Next
NextIter ==
    \/ Start
    \/ NextItem
    \/ NextRaise
    \/ NextStop
    \/ Merge
    \/ Bar
    \/ Yield
    \/ Resume
    \/ Finish
    \/ Except
    \/ Exit
    \/ TaskStart
    \/ TaskPut
    \/ TaskEnd
    \/ TaskCrash
    \/ \E w \in 1..MaxWorkers : WorkerTake(w)
    \/ \E w \in 1..MaxWorkers : WorkerFinish(w)
    \/ SourceShrink
    \/ SourceGrow

Next ==
    \/ NextIter
    \/ Close

Spec == Init /\ [][Next]_vars

\* A caller that keeps iterating (it never closes the generator), a task
\* handler thread and worker processes that the operating system keeps
\* scheduling.
Orchestrator ==
    \/ Start
    \/ NextItem
    \/ NextRaise
    \/ NextStop
    \/ Merge
    \/ Bar
    \/ Yield
    \/ Resume
    \/ Finish
    \/ Except
    \/ Exit

TaskHandler ==
    \/ TaskStart
    \/ TaskPut
    \/ TaskEnd
    \/ TaskCrash

Worker(w) ==
    \/ WorkerTake(w)
    \/ WorkerFinish(w)

FairSpec ==
    /\ Init
    /\ [][NextIter]_vars
    /\ WF_vars(Orchestrator)
    /\ WF_vars(TaskHandler)
    /\ \A w \in 1..MaxWorkers : WF_vars(Worker(w))

\* ---------------------------------------------------------- derived state
\* The generator was exhausted by the normal end of the for loop.
Completed == pc = "done" /\ signal = "StopIteration" /\ ~errorSeen

\* The number of items of the input when chunking began.
InputSize == IF kind = "query" THEN qcount ELSE Len(source)

\* The source is the one chunking began with.
Stable == kind = "plain" \/ ~srcChanged

Occurrences(s, x) == Cardinality({ i \in 1..Len(s) : s[i] = x })

\* s holds every element of t exactly once, and nothing else.
IsPermutation(s, t) ==
    /\ Len(s) = Len(t)
    /\ \A i \in 1..Len(t) : Occurrences(s, t[i]) = 1

\* The items func was called with, over the chunks started so far.
PassedItems == Flatten([i \in 1..Len(started) |-> chunks[started[i]]])

\* What func returns for the i-th chunk to arrive (nothing when it raises).
ArrivedResults(i) ==
    IF failItem \in Range(chunks[arrival[i]])
    THEN << >>
    ELSE Results(chunks[arrival[i]], fan)

AllArrivedResults == Flatten([i \in 1..Len(arrival) |-> ArrivedResults(i)])

\* ------------------------------------------------------------------ claims
\* C1: whenever a chunk's user function raised and the orchestrator saw the
\* error, batch() ends, pool torn down, with an abort signal to its caller
\* (an exception), never as a generator that is simply exhausted.
C1_ErrorResurfaced ==
    (pc = "done" /\ errorSeen) =>
        (poolState = "TERMINATE" /\ signal = "exception")

\* C2 as stated: once the user function has raised on a chunk, fewer results
\* than the input has items are yielded.
C2_FewerThanInput == raised => Len(yielded) < InputSize

\* C2, amended: no result of the item func raised on is yielded, and with
\* at most one result per item fewer results than input items are yielded;
\* once pool.terminate() has run, no further chunk begins execution, no
\* further result is yielded and no further report is merged.
C2_Abort ==
    /\ [](\A i \in 1..Len(yielded) : yielded[i][1] # failItem)
    /\ []((raised /\ fan <= 1) => Len(yielded) < InputSize)
    /\ [][poolState = "TERMINATE" =>
            /\ started' = started
            /\ yielded' = yielded
            /\ mainReports' = mainReports]_vars

\* C2 witness: the error was seen and the pool terminated while chunks were
\* still queued and a chunk was running.
C2_Witness ==
    /\ errorSeen
    /\ poolState = "TERMINATE"
    /\ inqueue # << >>
    /\ Len(started) < Len(chunks)
    /\ Len(yielded) > 0

\* C3: plain input, chunksize >= 1: the chunks partition the input in order
\* (every chunk but the last has chunksize items, the last 1..chunksize),
\* each chunk is passed to func at most once, and when the batch completes
\* the items passed to func are the input, each exactly once.
C3_Coverage ==
    (kind = "plain" /\ chunksize >= 1) =>
        /\ Flatten(chunks) = SubSeq(source, 1, pos)
        /\ \A i \in 1..Len(chunks) :
              /\ Len(chunks[i]) >= 1
              /\ Len(chunks[i]) <= chunksize
              /\ i < Len(chunks) => Len(chunks[i]) = chunksize
        /\ gen = "done" => Flatten(chunks) = source
        /\ \A i \in 1..Len(chunks) : Occurrences(started, i) <= 1
        /\ Completed => IsPermutation(PassedItems, source)

\* C3 witness: a completed batch over a plain input whose last chunk is
\* short, run by two workers.
C3_Witness ==
    /\ kind = "plain"
    /\ Completed
    /\ workers = 2
    /\ Len(chunks) = 2
    /\ Len(chunks[2]) < chunksize
    /\ Len(PassedItems) = 3

\* C4: paginated source, chunksize >= 1: chunk i is fetched at offset
\* (i - 1) * chunksize with limit chunksize, in increasing offset order;
\* exactly ceil(count / chunksize) chunks are produced; and for a source
\* that did not change, the chunks concatenated in submission order are the
\* source in its order, the last chunk having count mod chunksize items,
\* or chunksize items when count is a positive multiple of chunksize.
C4_QueryChunking ==
    (kind = "query" /\ chunksize >= 1) =>
        /\ Len(fetches) = Len(chunks)
        /\ \A i \in 1..Len(fetches) :
              fetches[i] = << (i - 1) * chunksize, chunksize >>
        /\ gen = "done" =>
              Len(chunks) = (qcount + chunksize - 1) \div chunksize
        /\ (gen = "done" /\ ~srcChanged) =>
              /\ Flatten(chunks) = source
              /\ chunks # << >> =>
                    Len(chunks[Len(chunks)]) =
                        IF qcount % chunksize = 0
                        THEN chunksize
                        ELSE qcount % chunksize

\* C4 witness: a stable source of 3 rows was chunked by 2: two chunks, the
\* last one short.
C4_Witness ==
    /\ kind = "query"
    /\ gen = "done"
    /\ ~srcChanged
    /\ qcount = 3
    /\ chunksize = 2
    /\ Len(chunks) = 2

\* C5: func records one report entry per item (Entries): when a batch with
\* chunksize >= 1 over a source that did not change completes, the main
\* reporter holds exactly one entry per input item: none lost, none twice.
C5_ReportCompleteness ==
    (Completed /\ chunksize >= 1 /\ Stable) =>
        IsPermutation(mainReports, Entries(source))

\* C5 witness: a completed batch of three chunks on two workers (a worker
\* was reused) whose reports were merged out of input order.
C5_Witness ==
    /\ Completed
    /\ chunksize = 1
    /\ workers = 2
    /\ Len(chunks) = 3
    /\ Len(mainReports) = 3
    /\ mainReports # Entries(source)

\* C6: the results yielded so far are a prefix of the concatenation, in
\* arrival order, of the chunks' results, each chunk's results in the order
\* func returned them; when the batch completes they are all of it.
C6_ArrivalOrder ==
    /\ Len(yielded) <= Len(AllArrivedResults)
    /\ yielded = SubSeq(AllArrivedResults, 1, Len(yielded))
    /\ Completed => yielded = AllArrivedResults

\* C6 witness: two workers, a completed batch whose chunks (several results
\* each) arrived in another order than they were submitted.
C6_Witness ==
    /\ Completed
    /\ workers = 2
    /\ Len(arrival) >= 2
    /\ arrival # Iota(Len(arrival))
    /\ Len(yielded) >= 4

\* C7 as stated: the progress sum is the number of input items when the
\* batch completes, and at most that number when it aborts.
C7_SumIsInputSize ==
    /\ (Completed /\ chunksize >= 1 /\ Stable) => progress = Len(source)
    /\ (pc = "done" /\ errorSeen) => progress <= InputSize

\* C7, amended: the progress sum never decreases; when the batch completes
\* it is the number of results yielded, which is the number of input items
\* when func returns one result per item; after an abort it is at most the
\* number of results that arrived, at most the number of input items when
\* func returns at most one result per item.
C7_Progress ==
    /\ [][progress' >= progress]_vars
    /\ [](Completed =>
            /\ progress = Len(yielded)
            /\ progress = Len(AllArrivedResults))
    /\ []((Completed /\ chunksize >= 1 /\ Stable /\ fan = 1) =>
            progress = Len(source))
    /\ []((pc = "done" /\ errorSeen) =>
            /\ progress <= Len(AllArrivedResults)
            /\ fan <= 1 => progress <= InputSize)

\* C7 witness: a completed batch of two chunks of two items, one result per
\* item: the progress sum is 3 after steps of 2 and 1.
C7_Witness ==
    /\ Completed
    /\ fan = 1
    /\ chunksize = 2
    /\ Len(chunks) = 2
    /\ progress = 3

\* C8: no chunk yields two ResultBatches; a completed batch has received
\* exactly one ResultBatch per chunk submitted; every submitted chunk
\* eventually yields its ResultBatch unless the pool is terminated; and,
\* with a caller that keeps iterating and workers that keep being scheduled,
\* a batch with chunksize >= 1 whose func never raises completes.
C8_OneResultBatch ==
    /\ [](\A i \in 1..Len(chunks) : Occurrences(arrival, i) <= 1)
    /\ [](Completed => IsPermutation(arrival, Iota(Len(chunks))))
    /\ \A i \in 1..MaxN :
          (Len(chunks) >= i) ~>
              (Occurrences(arrival, i) = 1 \/ poolState = "TERMINATE")
    /\ (pc = "idle" /\ chunksize >= 1 /\ failItem = 0) ~> Completed

\* C8 witness: a completed batch of three chunks on two workers, in which
\* no func call raised.
C8_Witness ==
    /\ Completed
    /\ failItem = 0
    /\ workers = 2
    /\ Len(chunks) = 3
    /\ Len(arrival) = 3

\* C9: with chunksize <= 0, batch() fails with an error before the pool's
\* worker processes exist and before any chunk is submitted; it does not end
\* as an exhausted generator that processed nothing.
C9_FailFast ==
    (chunksize <= 0 /\ pc # "idle") =>
        /\ poolState = "none"
        /\ chunks = << >>
        /\ pc = "done"
        /\ signal = "exception"

\* C10: when the windows of a paginated source retrieved another number of
\* items than the count taken when chunking began, the batch a caller
\* iterated to its end ended with an error: it did not complete normally.
C10_InconsistentSourceAborts ==
    (kind = "query" /\ chunksize >= 1 /\ gen = "done"
        /\ SumLen(chunks) # qcount /\ pc = "done" /\ signal # "closed") =>
        signal = "exception"

\* C11: the process reporter of a worker is empty whenever the worker
\* executes a chunk or waits for one: collect_report left it cleared, whether
\* func returned or raised, and every ResultBatch carries the entries of its
\* own chunk only.
C11_ReporterEmptyAtStart ==
    /\ \A w \in DOMAIN wrep : wstate[w] > 0 => wrep[w] = << >>
    /\ \A i \in 1..Len(outqueue) :
          outqueue[i].ok =>
              outqueue[i].reports = Entries(chunks[outqueue[i].idx])

\* C12: bar.finish() is called at most once, and exactly once by the time a
\* batch has completed; when it is called every ResultBatch has arrived and
\* has been merged, counted and fully yielded; after the orchestrator saw a
\* worker's error bar.finish() is never called and the progress sum stays
\* what it was.
C12_Finalization ==
    /\ [](finishCalls <= 1)
    /\ [](Completed => finishCalls = 1)
    /\ [](finishCalls = 1 =>
            /\ ~errorSeen
            /\ outqueue = << >>
            /\ rest = << >>
            /\ length = Len(chunks)
            /\ IsPermutation(arrival, Iota(length))
            /\ yielded = AllArrivedResults
            /\ progress = Len(AllArrivedResults)
            /\ Len(mainReports) = SumLen(chunks))
    /\ [](errorSeen => finishCalls = 0)
    /\ [][errorSeen => (progress' = progress /\ finishCalls' = finishCalls)]_vars

\* C12 witness: bar.finish() ran after three chunks were merged and yielded,
\* and the with block has not been left yet.
C12_Witness ==
    /\ finishCalls = 1
    /\ pc = "exit"
    /\ Len(arrival) = 3
    /\ progress = 3
    /\ Len(yielded) = 3

\* The state of one invocation of batch(): IDLE until the generator is
\* first advanced, RUNNING while its body runs or is suspended, and, once
\* the generator has ended, COMPLETED after the normal end of the for loop
\* and ABORTED otherwise (a worker's error, or the caller's close).
State ==
    CASE pc = "idle" -> "IDLE"
      [] pc = "done" /\ Completed -> "COMPLETED"
      [] pc = "done" /\ ~Completed -> "ABORTED"
      [] OTHER -> "RUNNING"

\* C13: an invocation goes IDLE -> RUNNING -> COMPLETED or ABORTED: it
\* leaves IDLE only for RUNNING, leaves RUNNING only for one of the two
\* terminal states, which exclude each other; in a terminal state the pool is
\* terminated and nothing changes any more (no chunk starts, no report is
\* merged, no result is yielded); and with chunksize >= 1 an invocation that
\* has not ended can always take a further step.
C13_StateMachine ==
    /\ [](State = "COMPLETED" =>
            (finishCalls = 1 /\ ~errorSeen /\ signal = "StopIteration"))
    /\ [](State = "ABORTED" =>
            (finishCalls = 0 /\ (errorSeen \/ signal = "closed")))
    /\ []((pc # "done" /\ chunksize >= 1) => ENABLED NextIter)
    /\ [][/\ State = "IDLE" => State' \in {"IDLE", "RUNNING"}
          /\ State = "RUNNING" =>
                State' \in {"RUNNING", "COMPLETED", "ABORTED"}
          /\ State \in {"COMPLETED", "ABORTED"} =>
                /\ State' = State
                /\ started' = started
                /\ mainReports' = mainReports
                /\ yielded' = yielded]_vars

\* C13 witness: an invocation that ended ABORTED after yielding results,
\* with chunks still queued.
C13_Witness ==
    /\ State = "ABORTED"
    /\ errorSeen
    /\ Len(yielded) > 0
    /\ inqueue # << >>

\* C14: for every chunk a worker is executing and whose func call returns,
\* the drain of collect_report (copy the buffer, then clear it) hands over
\* every entry recorded since the previous drain and leaves the buffer
\* empty, so that a second drain with no record in between (a call on a chunk
\* of no items) returns a sequence of length 0; while no func call has
\* raised, every worker's buffer is empty between chunks.
C14_IdempotentDrain ==
    /\ \A w \in DOMAIN wrep :
          (wstate[w] > 0 /\ ~(failItem \in Range(chunks[wstate[w]]))) =>
              LET chunk == chunks[wstate[w]]
                  first == CollectReport(wrep[w], chunk, failItem, fan)
                  second == CollectReport(first.buf, << >>, failItem, fan)
              IN  /\ first.reports = wrep[w] \o Entries(chunk)
                  /\ Len(second.reports) = 0
                  /\ second.buf = << >>
    /\ ~raised => \A w \in DOMAIN wrep : wrep[w] = << >>

\* C14 witness: one worker drained its reporter twice, after chunk 1 and
\* after chunk 2; the second ResultBatch holds the entries of chunk 2 only.
C14_Witness ==
    /\ workers = 1
    /\ Len(outqueue) = 2
    /\ outqueue[1].ok /\ outqueue[2].ok
    /\ outqueue[1].reports # << >>
    /\ outqueue[2].reports = Entries(chunks[2])
    /\ wrep[1] = << >>

\* C15: on every way out of batch() (the for loop ended, a worker's error
\* was handled, the except clause itself raised, the caller closed the
\* suspended generator) the pool is terminated: no worker process is alive
\* once the generator has ended, and from then on no queued chunk is taken,
\* started or completed.
C15_PoolTornDown ==
    /\ [](pc = "done" =>
            /\ poolState = "TERMINATE"
            /\ signal \in {"StopIteration", "exception", "closed"}
            /\ \A w \in DOMAIN wstate : wstate[w] = -1)
    /\ [][pc = "done" =>
            /\ inqueue' = inqueue
            /\ started' = started
            /\ arrival' = arrival]_vars

\* C15 witness: the except clause raised (e.args[0] is no str), so only the
\* exit of the with block terminated the pool, with a chunk still queued.
C15_Witness ==
    /\ pc = "done"
    /\ signal = "exception"
    /\ inqueue # << >>
    /\ poolState = "TERMINATE"

\* s is the end of t.
IsSuffix(s, t) ==
    /\ Len(s) <= Len(t)
    /\ SubSeq(t, Len(t) - Len(s) + 1, Len(t)) = s

\* The number of ResultBatches whose reports reporter.merge has received.
MergedCount ==
    Len(arrival) - Len(outqueue)
        - (IF pc = "merge" THEN 1 ELSE 0)
        - (IF errorSeen THEN 1 ELSE 0)

\* C16: ResultBatches are handled one at a time in arrival order, each by
\* merge, then advance, then yield: the main reporter holds the reports of
\* the batches handled so far, in arrival order; the results yielded never
\* outnumber the progress sum and equal it whenever the orchestrator waits
\* for the next ResultBatch; before the merge the batch is not yet counted,
\* and whenever a result of a batch is (about to be) yielded the reports of
\* that batch are merged and its results counted.
C16_MergeAdvanceYield ==
    /\ Len(yielded) <= progress
    /\ pc = "wait" => Len(yielded) = progress
    /\ MergedCount >= 0
    /\ mainReports =
          Flatten([i \in 1..MergedCount |-> Entries(chunks[arrival[i]])])
    /\ pc = "merge" => (progress = Len(yielded) /\ rest = << >>)
    /\ pc = "bar" =>
          /\ IsSuffix(cur.reports, mainReports)
          /\ progress = Len(yielded)
    /\ pc \in {"yield", "suspended"} =>
          /\ IsSuffix(cur.reports, mainReports)
          /\ cur.reports = Entries(chunks[cur.idx])
          /\ progress = Len(yielded) + Len(rest)
          /\ IsSuffix(rest, cur.results)

\* C16 witness: the first result of the second ResultBatch to arrive (chunk
\* 1, after chunk 2) has been yielded, its second result has not.
C16_Witness ==
    /\ pc = "suspended"
    /\ arrival = << 2, 1 >>
    /\ cur.idx = 1
    /\ Len(rest) = 1
    /\ Len(yielded) < progress
    /\ Len(mainReports) >= 2

=============================================================================
